---- MODULE Spec2Model ----
(***************************************************************************)
(* Model of the two local development launchers of the schema validator:   *)
(*   local_server.py          (variant "local",  CORS handler, browser     *)
(*                             opened from a daemon thread)                *)
(*   webapp/start_server.py   (variant "webapp", plain handler, browser    *)
(*                             opened inline before serve_forever)         *)
(* The state is the main thread's position, the listening sockets the      *)
(* process holds, the ports other processes hold, the browser thread, the  *)
(* exit status, and history variables recording what has happened.         *)
(***************************************************************************)
EXTENDS Integers, Sequences, FiniteSets, TLC

VARIABLES
    variant,     \* which script was launched
    occupied,    \* ports other processes listen on
    pc,          \* position of the main thread
    test_port,   \* loop variable of the probe loop
    port,        \* chosen port (port in local_server.py, PORT in start_server.py)
    held,        \* ports this process holds an open listening socket on
    exitStatus,  \* exit status, NoExit while running
    thread,      \* browser thread of local_server.py
    browser,     \* outcome of the browser-open request made for the current server
    bound,       \* ports the serving socket has been bound on
    opened,      \* ports a browser-open request was issued for
    served,      \* ports on which serve_forever was entered
    attempts,    \* bind attempts, in order
    response,    \* last HTTP response the current server sent
    intAt,       \* position at which the last interrupt was delivered
    swallowed,   \* some interrupt was caught and execution went on
    faults,      \* number of faults raised while bound or serving
    lastFault,   \* kind of the last such fault
    faultAt,     \* position at which it was raised
    cwd,         \* current working directory of the process
    root,        \* directory the current server served its last response from
    alwaysFree,  \* ports no other process has held since the launch
    envChanges   \* number of binds and releases by other processes

vars == <<variant, occupied, pc, test_port, port, held, exitStatus,
          thread, browser, bound, opened, served, attempts, response,
          intAt, swallowed, faults, lastFault, faultAt,
          cwd, root, alwaysFree, envChanges>>

----------------------------------------------------------------------------
(* Program constants *)

\* range(8000, 8010): first and last candidate port
PortLo == 8000
PortHi == 8009
Ports == PortLo..PortHi

\* sys.exit codes
ExitClean == 0
ExitError == 1
\* status of a Python process that dies of an uncaught KeyboardInterrupt
ExitSigint == 130
\* exitStatus before the process has decided to exit
NoExit == -1

Variants == {"local", "webapp"}

\* Bound on the number of faults injected in one run
MaxFaults == 1

\* Bound on the number of binds and releases by other processes in one run
MaxEnvChanges == 2

----------------------------------------------------------------------------
(* Sockets *)

\* socketserver.TCPServer(("", p), Handler): bind succeeds iff no other
\* process and no socket of this process listens on p (no SO_REUSEADDR
\* sharing of a listening port)
BindSucceeds(p, occ, h) == p \notin occ /\ p \notin h

\* TCPServer.__exit__ -> server_close(): the listening socket is closed
server_close_leak(h, p) == h
server_close(h, p) == h \ {p}

\* first candidate of the for loop
FirstCandidate_skip == PortLo + 1
FirstCandidate == PortLo

\* next candidate of the for loop
NextCandidate_wrap(p) == IF p = PortHi THEN PortLo ELSE p + 1
NextCandidate(p) == p + 1

----------------------------------------------------------------------------
(* HTTP responses.  A response is a status and the sequence of header     *)
(* lines in the order the handler emitted them.                            *)

Methods == {"GET", "POST", "OPTIONS"}
Paths == {"/index.html", "/missing", "/js"}
Origins == {"none", "http://example.org"}
Requests == [method : Methods, path : Paths, origin : Origins]

NoResponse == [status |-> 0, headers |-> <<>>]

send_header(hs, k, v) == Append(hs, <<k, v>>)

\* SimpleHTTPRequestHandler.end_headers of the standard library: used
\* unchanged by start_server.py
base_end_headers(hs) == hs

\* CustomHTTPRequestHandler.end_headers
cors_end_headers_partial(hs) ==
    base_end_headers(
        send_header(
            send_header(hs, "Access-Control-Allow-Origin", "*"),
            "Access-Control-Allow-Methods", "GET, POST, OPTIONS"))
cors_end_headers(hs) ==
    base_end_headers(
        send_header(
            send_header(
                send_header(hs, "Access-Control-Allow-Origin", "*"),
                "Access-Control-Allow-Methods", "GET, POST, OPTIONS"),
            "Access-Control-Allow-Headers", "Content-Type"))

\* end_headers of the handler class each launcher passes to TCPServer
end_headers(v, hs) ==
    IF v = "local" THEN cors_end_headers(hs) ELSE base_end_headers(hs)

\* headers the standard library emits before end_headers, per outcome
BodyHeaders(status) ==
    IF status = 200 THEN
        <<<<"Content-type", "text/html">>, <<"Content-Length", "n">>>>
    ELSE IF status = 301 THEN
        <<<<"Location", "/js/">>, <<"Content-Length", "0">>>>
    ELSE
        <<<<"Connection", "close">>, <<"Content-Type", "text/html">>>>

\* status the static file responder answers a request with
StatusOf(req) ==
    IF req.method # "GET" THEN 501
    ELSE IF req.path = "/missing" THEN 404
    ELSE IF req.path = "/js" THEN 301
    ELSE 200

\* the response a handler of variant v produces for req
Respond(v, req) ==
    [status |-> StatusOf(req),
     headers |-> end_headers(v, BodyHeaders(StatusOf(req)))]

\* number of header lines of response r named k
CountHeader(r, k) ==
    Cardinality({i \in 1..Len(r.headers) : r.headers[i][1] = k})

----------------------------------------------------------------------------
(* Directories.  A directory is the sequence of its path components.       *)

\* directories the command may be invoked from
LaunchDirs == { <<"repo">>, <<"home">> }

\* no response has been served yet
NoRoot == <<>>

\* directory containing the launched script: local_server.py lies in the
\* repository root, start_server.py in its webapp directory
ScriptDir(v) ==
    IF v = "local" THEN <<"repo">> ELSE <<"repo", "webapp">>

\* start_server.py lines 71-72: os.chdir(Path(__file__).parent);
\* local_server.py never changes directory
CwdAfterStart(v, c) ==
    IF v = "webapp" THEN ScriptDir(v) ELSE c

\* directory a request is served from when the process's working
\* directory is c: local_server.py passes the relative directory="webapp"
\* (line 15), start_server.py uses the handler's default, the working
\* directory
ServedRoot(v, c) ==
    IF v = "local" THEN c \o <<"webapp">> ELSE c

----------------------------------------------------------------------------
(* Exceptions and the try/except structure of the two main functions.     *)

\* positions at which the main thread is inside a with TCPServer block
WithPCs == {"ProbeHeld", "Bound", "ThreadStarted", "BrowserOpen", "Serving"}
\* positions at which the process is running
LivePCs == {"PortProbing", "Selected"} \cup WithPCs

\* outcomes of webbrowser.open: a browser was started, none could be
\* started (returns False), or the call raised
BrowserOutcomes == {"ok", "false", "raise"}
BrowserFailures == {"false", "raise"}

\* exceptions are "KeyboardInterrupt", "BrowserError" (what webbrowser.open
\* raises), "OSError" and "Other" (any other Exception); the last two are
\* the kinds of fault injected
FaultKinds == {"OSError", "Other"}

\* local_server.py: what becomes of exception exc raised at position p.
\* The probe loop (27-33) is outside the try of line 35 and its own try
\* catches OSError only; lines 35-57 (from the bind of line 36 on) catch
\* KeyboardInterrupt and Exception.  An uncaught KeyboardInterrupt kills
\* the interpreter ("sigint").
LocalHandle_noInterruptClause(p, exc) ==
    IF exc = "KeyboardInterrupt" THEN "sigint"
    ELSE IF p \in {"Selected", "Bound", "ThreadStarted", "Serving"} THEN "exit1"
    ELSE IF exc = "OSError" THEN "continue"
    ELSE "exit1"
LocalHandle(p, exc) ==
    IF p \in {"Selected", "Bound", "ThreadStarted", "Serving"} THEN
        IF exc = "KeyboardInterrupt" THEN "exit0" ELSE "exit1"
    ELSE
        IF exc = "KeyboardInterrupt" THEN "sigint"
        ELSE IF exc = "OSError" THEN "continue"
        ELSE "exit1"

\* start_server.py: the bare except of line 94 catches everything raised
\* by lines 92-93; except OSError of line 100 catches every OSError raised
\* in lines 81-99; KeyboardInterrupt reaches the handler of line 109;
\* anything else is uncaught and the interpreter exits with status 1.
WebappHandle_noInnerTry(p, exc) ==
    IF exc = "OSError" THEN "continue"
    ELSE IF exc = "KeyboardInterrupt" THEN "exit0"
    ELSE "exit1"
WebappHandle(p, exc) ==
    IF p = "BrowserOpen" THEN "swallow"
    ELSE IF exc = "OSError" THEN "continue"
    ELSE IF exc = "KeyboardInterrupt" THEN "exit0"
    ELSE "exit1"

Handle(v, p, exc) ==
    IF v = "local" THEN LocalHandle(p, exc) ELSE WebappHandle(p, exc)

\* exit status of each terminating outcome
StatusOfOutcome_zero(h) ==
    IF h = "sigint" THEN ExitSigint ELSE ExitClean
StatusOfOutcome(h) ==
    IF h = "exit0" THEN ExitClean
    ELSE IF h = "sigint" THEN ExitSigint
    ELSE ExitError

----------------------------------------------------------------------------
(* Initial state: the script has been launched and nothing has run yet;    *)
(* any subset of the probe range is held by other processes.               *)

Init ==
    /\ variant \in Variants
    /\ occupied \in SUBSET Ports
    /\ pc = "Idle"
    /\ test_port = PortLo
    /\ port = PortLo
    /\ held = {}
    /\ exitStatus = NoExit
    /\ thread = "NotStarted"
    /\ browser = "none"
    /\ bound = {}
    /\ opened = {}
    /\ served = {}
    /\ attempts = <<>>
    /\ response = NoResponse
    /\ intAt = "none"
    /\ swallowed = FALSE
    /\ faults = 0
    /\ lastFault = "none"
    /\ faultAt = "none"
    /\ cwd \in LaunchDirs
    /\ root = NoRoot
    /\ alwaysFree = Ports \ occupied
    /\ envChanges = 0

----------------------------------------------------------------------------
(* Steps shared by the two launchers *)

\* the port of the socket the with block at position p owns
SocketAt(p) == IF p = "ProbeHeld" THEN test_port ELSE port

\* leaving the with block at position p: __exit__ closes its socket
LeaveWith_noClose(p) == held
LeaveWith(p) ==
    IF p \in WithPCs THEN server_close(held, SocketAt(p)) ELSE held

\* the process leaves main with outcome h (exit0, exit1, sigint)
Terminate(h) ==
    /\ pc' = "Exiting"
    /\ exitStatus' = StatusOfOutcome(h)

\* except OSError: continue -- the for loop goes on with the next
\* candidate; after the last one local_server.py falls through to line 35
\* and start_server.py runs the else clause of line 102
Continue ==
    /\ test_port' = NextCandidate(test_port)
    /\ IF NextCandidate(test_port) <= PortHi
       THEN pc' = "PortProbing" /\ exitStatus' = exitStatus
       ELSE IF variant = "local"
            THEN pc' = "Selected" /\ exitStatus' = exitStatus
            ELSE Terminate("exit1")

\* what exception exc raised at the current position does to the launcher
Raise(exc) ==
    LET h == Handle(variant, pc, exc) IN
    /\ held' = IF h = "swallow" THEN held ELSE LeaveWith(pc)
    /\ IF h = "swallow"
       THEN /\ pc' = "Serving"
            /\ served' = served \cup {port}
            /\ UNCHANGED <<test_port, exitStatus>>
       ELSE IF h = "continue"
       THEN Continue /\ served' = served
       ELSE Terminate(h) /\ UNCHANGED <<test_port, served>>

\* launcher start: both scripts initialise the port to 8000 and enter the
\* probe loop
Start ==
    /\ pc = "Idle"
    /\ pc' = "PortProbing"
    /\ test_port' = FirstCandidate
    /\ port' = PortLo
    /\ cwd' = CwdAfterStart(variant, cwd)
    /\ UNCHANGED <<variant, root, alwaysFree, envChanges, occupied, held, exitStatus, thread, browser,
                   bound, opened, served, attempts, response, intAt, swallowed,
                   faults, lastFault, faultAt>>

----------------------------------------------------------------------------
(* local_server.py *)

\* line 29: bind the probe socket on test_port
LocalProbe ==
    /\ variant = "local"
    /\ pc = "PortProbing"
    /\ attempts' = Append(attempts, test_port)
    /\ IF BindSucceeds(test_port, occupied, held)
       THEN /\ held' = held \cup {test_port}
            /\ pc' = "ProbeHeld"
            /\ UNCHANGED <<test_port, exitStatus>>
       ELSE /\ Handle(variant, pc, "OSError") = "continue"
            /\ Continue
            /\ held' = held
    /\ UNCHANGED <<variant, cwd, root, alwaysFree, envChanges, occupied, port, thread, browser, bound, opened, served,
                   response, intAt, swallowed, faults, lastFault, faultAt>>

\* lines 30-31: port = test_port; break leaves the with block, which
\* closes the probe socket
LocalProbeRelease ==
    /\ variant = "local"
    /\ pc = "ProbeHeld"
    /\ port' = test_port
    /\ held' = LeaveWith(pc)
    /\ pc' = "Selected"
    /\ UNCHANGED <<variant, cwd, root, alwaysFree, envChanges, occupied, test_port, exitStatus, thread, browser,
                   bound, opened, served, attempts, response, intAt, swallowed,
                   faults, lastFault, faultAt>>

\* line 36: bind the serving socket on port; an OSError is caught by
\* except Exception (line 55) and the process exits 1
LocalBind ==
    /\ variant = "local"
    /\ pc = "Selected"
    /\ attempts' = Append(attempts, port)
    /\ IF BindSucceeds(port, occupied, held)
       THEN /\ held' = held \cup {port}
            /\ bound' = bound \cup {port}
            /\ pc' = "Bound"
            /\ UNCHANGED exitStatus
       ELSE /\ Terminate(Handle(variant, pc, "OSError"))
            /\ UNCHANGED <<held, bound>>
    /\ UNCHANGED <<variant, cwd, root, alwaysFree, envChanges, occupied, test_port, port, thread, browser,
                   opened, served, response, intAt, swallowed, faults,
                   lastFault, faultAt>>

\* lines 37-49: print the banner and start the daemon browser thread
LocalStartBrowserThread ==
    /\ variant = "local"
    /\ pc = "Bound"
    /\ thread' = "Sleeping"
    /\ pc' = "ThreadStarted"
    /\ UNCHANGED <<variant, cwd, root, alwaysFree, envChanges, occupied, test_port, port, held, exitStatus,
                   browser, bound, opened, served, attempts, response, intAt,
                   swallowed, faults, lastFault, faultAt>>

\* line 51: httpd.serve_forever()
LocalServe_beforeThread ==
    /\ variant = "local"
    /\ pc = "Bound"
    /\ pc' = "Serving"
    /\ served' = served \cup {port}
    /\ UNCHANGED <<variant, cwd, root, alwaysFree, envChanges, occupied, test_port, port, held, exitStatus,
                   thread, browser, bound, opened, attempts, response, intAt,
                   swallowed, faults, lastFault, faultAt>>
LocalServe ==
    /\ variant = "local"
    /\ pc = "ThreadStarted"
    /\ pc' = "Serving"
    /\ served' = served \cup {port}
    /\ UNCHANGED <<variant, cwd, root, alwaysFree, envChanges, occupied, test_port, port, held, exitStatus,
                   thread, browser, bound, opened, attempts, response, intAt,
                   swallowed, faults, lastFault, faultAt>>

\* lines 43-45, in the browser thread: after the sleep the thread asks the
\* platform to open the browser; whatever the outcome, only the thread ends
open_browser ==
    /\ variant = "local"
    /\ thread = "Sleeping"
    /\ pc # "Stopped"
    /\ \E o \in BrowserOutcomes : browser' = o
    /\ opened' = opened \cup {port}
    /\ thread' = "Done"
    /\ UNCHANGED <<bound, variant, cwd, root, alwaysFree, envChanges, occupied, pc, test_port, port, held, exitStatus,
                   served, attempts, response, intAt, swallowed, faults,
                   lastFault, faultAt>>

----------------------------------------------------------------------------
(* webapp/start_server.py *)

\* line 81: bind the serving socket on the loop's port; line 82 records
\* it.  httpd is a new server: it has sent no response and no browser-open
\* request has been made for it
WebappBind ==
    /\ variant = "webapp"
    /\ pc = "PortProbing"
    /\ attempts' = Append(attempts, test_port)
    /\ IF BindSucceeds(test_port, occupied, held)
       THEN /\ held' = held \cup {test_port}
            /\ bound' = bound \cup {test_port}
            /\ port' = test_port
            /\ pc' = "Bound"
            /\ response' = NoResponse
            /\ root' = NoRoot
            /\ browser' = "none"
            /\ UNCHANGED <<test_port, exitStatus>>
       ELSE /\ Handle(variant, pc, "OSError") = "continue"
            /\ Continue
            /\ UNCHANGED <<held, bound, port, response, root, browser>>
    /\ UNCHANGED <<variant, cwd, alwaysFree, envChanges, occupied,
                   thread, opened, served, intAt, swallowed, faults,
                   lastFault, faultAt>>

\* lines 83-92: print the banner and call webbrowser.open
WebappOpenBrowser ==
    /\ variant = "webapp"
    /\ pc = "Bound"
    /\ opened' = opened \cup {port}
    /\ pc' = "BrowserOpen"
    /\ UNCHANGED <<bound, variant, cwd, root, alwaysFree, envChanges, occupied, test_port, port, held, exitStatus,
                   thread, browser, served, attempts, response, intAt,
                   swallowed, faults, lastFault, faultAt>>

\* lines 92-98: webbrowser.open returns or raises; what it raises goes
\* through the handlers like any exception; otherwise httpd.serve_forever()
WebappBrowserReturn ==
    /\ variant = "webapp"
    /\ pc = "BrowserOpen"
    /\ \E o \in BrowserOutcomes :
          /\ browser' = o
          /\ IF o = "raise"
             THEN Raise("BrowserError")
             ELSE /\ pc' = "Serving"
                  /\ served' = served \cup {port}
                  /\ UNCHANGED <<test_port, held, exitStatus>>
    /\ UNCHANGED <<variant, cwd, root, alwaysFree, envChanges, occupied, port, thread, bound, opened, attempts,
                   response, intAt, swallowed, faults, lastFault, faultAt>>

----------------------------------------------------------------------------
(* Environment: the operator, faults, HTTP clients, interpreter exit *)

\* Ctrl+C: KeyboardInterrupt is raised in the main thread wherever it is
Interrupt ==
    /\ pc \in LivePCs
    /\ intAt' = pc
    /\ swallowed' = (swallowed \/ Handle(variant, pc, "KeyboardInterrupt") = "swallow")
    /\ Raise("KeyboardInterrupt")
    /\ UNCHANGED <<variant, cwd, root, alwaysFree, envChanges, occupied, port, thread, browser, bound, opened,
                   attempts, response, faults, lastFault, faultAt>>

\* an exception other than the interrupt raised by the banner prints, the
\* thread start or the serve loop
Fault ==
    /\ pc \in {"Bound", "ThreadStarted", "Serving"}
    /\ faults < MaxFaults
    /\ \E k \in FaultKinds :
          /\ lastFault' = k
          /\ Raise(k)
    /\ faults' = faults + 1
    /\ faultAt' = pc
    /\ UNCHANGED <<variant, cwd, root, alwaysFree, envChanges, occupied, port, thread, browser, bound, opened,
                   attempts, response, intAt, swallowed>>

\* the serve loop answers one request
HandleRequest ==
    /\ pc = "Serving"
    /\ \E req \in Requests : response' = Respond(variant, req)
    /\ root' = ServedRoot(variant, cwd)
    /\ UNCHANGED <<variant, cwd, alwaysFree, envChanges, occupied, pc, test_port, port, held, exitStatus,
                   thread, browser, bound, opened, served, attempts, intAt,
                   swallowed, faults, lastFault, faultAt>>

\* the interpreter exits; a daemon thread still sleeping dies with it
ProcessExit ==
    /\ pc = "Exiting"
    /\ pc' = "Stopped"
    /\ thread' = IF thread = "Sleeping" THEN "Killed" ELSE thread
    /\ UNCHANGED <<variant, cwd, root, alwaysFree, envChanges, occupied, test_port, port, held, exitStatus,
                   browser, bound, opened, served, attempts, response, intAt,
                   swallowed, faults, lastFault, faultAt>>

Next ==
    \/ Start
    \/ LocalProbe
    \/ LocalProbeRelease
    \/ LocalBind
    \/ LocalStartBrowserThread
    \/ LocalServe
    \/ open_browser
    \/ WebappBind
    \/ WebappOpenBrowser
    \/ WebappBrowserReturn
    \/ Interrupt
    \/ Fault
    \/ HandleRequest
    \/ ProcessExit

Spec == Init /\ [][Next]_vars

----------------------------------------------------------------------------
(* A changing environment: while the launcher runs, other processes bind   *)
(* and release ports of the probe range.                                   *)

\* the ports other processes bind and release
EnvPorts == {PortLo, PortLo + 1}

\* another process binds p: possible only while nobody listens on p
EnvBind ==
    /\ pc \notin {"Exiting", "Stopped"}
    /\ envChanges < MaxEnvChanges
    /\ \E p \in EnvPorts :
          /\ BindSucceeds(p, occupied, held)
          /\ occupied' = occupied \cup {p}
          /\ alwaysFree' = alwaysFree \ {p}
    /\ envChanges' = envChanges + 1
    /\ UNCHANGED <<variant, pc, test_port, port, held, exitStatus, thread,
                   browser, bound, opened, served, attempts, response,
                   intAt, swallowed, faults, lastFault, faultAt, cwd, root>>

\* another process closes its socket on p
EnvRelease ==
    /\ pc \notin {"Exiting", "Stopped"}
    /\ envChanges < MaxEnvChanges
    /\ \E p \in EnvPorts \cap occupied : occupied' = occupied \ {p}
    /\ envChanges' = envChanges + 1
    /\ UNCHANGED <<variant, pc, test_port, port, held, exitStatus, thread,
                   browser, bound, opened, served, attempts, response,
                   intAt, swallowed, faults, lastFault, faultAt, cwd, root,
                   alwaysFree>>

EnvInit == Init /\ occupied \subseteq EnvPorts

EnvNext == Next \/ EnvBind \/ EnvRelease

EnvSpec == EnvInit /\ [][EnvNext]_vars

\* once main has returned or raised, the interpreter does exit
FairSpec == Spec /\ WF_vars(ProcessExit)

\* the statements of main itself: the interpreter executes the next one
\* whenever there is one.  The return of webbrowser.open, the browser
\* thread's wake-up, requests, interrupts and faults are not among them:
\* they depend on the platform, the clients and the operator.
MainStep ==
    \/ Start
    \/ LocalProbe
    \/ LocalProbeRelease
    \/ LocalBind
    \/ LocalStartBrowserThread
    \/ LocalServe
    \/ WebappBind
    \/ WebappOpenBrowser

\* main runs on and the interpreter exits when main is left
ProgressSpec == Spec /\ WF_vars(MainStep) /\ WF_vars(ProcessExit)

TypeOK ==
    /\ variant \in Variants
    /\ occupied \subseteq Ports
    /\ pc \in LivePCs \cup {"Idle", "Exiting", "Stopped"}
    /\ test_port \in PortLo..(PortHi + 1)
    /\ port \in Ports
    /\ held \subseteq Ports
    /\ exitStatus \in {NoExit, ExitClean, ExitError, ExitSigint}
    /\ thread \in {"NotStarted", "Sleeping", "Done", "Killed"}
    /\ browser \in BrowserOutcomes \cup {"none"}
    /\ bound \subseteq Ports
    /\ cwd \in LaunchDirs \cup {ScriptDir(variant)}
    /\ alwaysFree \subseteq Ports \ occupied
    /\ envChanges \in 0..MaxEnvChanges
    /\ opened \subseteq Ports
    /\ served \subseteq Ports
    /\ faults \in 0..MaxFaults

----------------------------------------------------------------------------
(* Properties *)

FreePorts == Ports \ occupied
HasExited == pc \in {"Exiting", "Stopped"}
\* the ascending run of candidates PortLo, PortLo + 1, ..., p
Ascending(p) == [i \in 1..(p - PortLo + 1) |-> PortLo + i - 1]
\* positions before the serve loop is entered
PreServePCs == {"PortProbing", "ProbeHeld", "Selected", "Bound",
                "ThreadStarted", "BrowserOpen"}

\* C1: in a run without faults, whenever the launcher serves it serves on
\* the lowest free port of 8000..8009, holding exactly that port, having
\* tried exactly the candidates 8000, 8001, ... up to it in ascending order
\* (local_server.py then binds the chosen port once more), every candidate
\* below it being occupied; and a run with a free port that was neither
\* interrupted nor hit by a fault never exits.
C1_LowestFreePort ==
    /\ (pc = "Serving" /\ faults = 0) =>
          /\ port \in FreePorts
          /\ \A q \in Ports : q < port => q \in occupied
          /\ held = {port}
          /\ served = {port}
          /\ attempts = Ascending(port) \o
                (IF variant = "local" THEN <<port>> ELSE <<>>)
    /\ (HasExited /\ faults = 0 /\ intAt = "none") => FreePorts = {}

C1_Witness ==
    /\ pc = "Serving"
    /\ faults = 0
    /\ port = PortLo + 3
    /\ occupied = {PortLo, PortLo + 1, PortLo + 2, PortLo + 5}

\* C2: when every port of 8000..8009 is occupied the launcher never holds
\* a listening socket and never enters Bound or Serving, and once it has
\* exited without having been interrupted its exit status is 1.
C2_Exhaustion ==
    occupied = Ports =>
        /\ held = {}
        /\ bound = {}
        /\ served = {}
        /\ pc \notin WithPCs
        /\ (HasExited /\ intAt = "none") => exitStatus = ExitError
        /\ (pc \in {"PortProbing", "Selected"} /\ intAt = "none") =>
              exitStatus = NoExit

C2_Witness ==
    /\ occupied = Ports
    /\ pc = "Stopped"
    /\ intAt = "none"
    /\ exitStatus = ExitError
    /\ Len(attempts) >= PortHi - PortLo + 1

Released ==
    /\ exitStatus = ExitClean
    /\ held = {}
    /\ BindSucceeds(port, occupied, held)

\* C3: once an interrupt has been delivered while the launcher was in
\* Serving, the launcher has left the serve loop with exit status 0, holds
\* no listening socket, and a bind of the port it served on would succeed
\* again; and it goes on to Stopped in that condition.
C3_InterruptWhileServing ==
    /\ [](intAt = "Serving" => (HasExited /\ Released))
    /\ (intAt = "Serving") ~> (pc = "Stopped" /\ Released)

C3_Witness ==
    /\ intAt = "Serving"
    /\ pc = "Stopped"
    /\ port \in served
    /\ response # NoResponse

\* C4: a fault raised while the launcher is Bound or Serving takes it to
\* Stopped with a non-zero exit status: after the fault the launcher has
\* exited, with a status other than 0.
C4_FaultIsTerminal ==
    faults > 0 =>
        /\ HasExited
        /\ exitStatus \notin {NoExit, ExitClean}

\* C5: no interrupt is swallowed, and an interrupt delivered before the
\* serve loop is entered leaves the launcher exited with status 0 and
\* without a listening socket.
C5_InterruptBeforeServing ==
    /\ ~swallowed
    /\ intAt \in PreServePCs =>
          /\ HasExited
          /\ exitStatus = ExitClean
          /\ held = {}

\* C6: a step in which the browser-open request fails (returns False or
\* raises) does not stop the launcher: in start_server.py the step ends in
\* Serving on the same port with the socket still held; in local_server.py
\* the step ends the browser thread only and the main thread, its socket
\* and its exit status are as before.
C6_BrowserFailureNotFatal ==
    [][ /\ (variant = "webapp" /\ pc = "BrowserOpen" /\ intAt' = intAt
              /\ browser' \in BrowserFailures) =>
             /\ pc' = "Serving"
             /\ port' = port
             /\ held' = {port}
             /\ exitStatus' = NoExit
        /\ (variant = "local" /\ thread = "Sleeping" /\ thread' = "Done"
              /\ browser' \in BrowserFailures) =>
             /\ pc' = pc
             /\ port' = port
             /\ held' = held
             /\ exitStatus' = exitStatus
      ]_vars

C6_Witness ==
    /\ browser = "raise"
    /\ pc = "Serving"
    /\ response # NoResponse
    /\ intAt = "none"
    /\ faults = 0

\* C7: the launcher never holds more than one open listening socket.
C7_AtMostOneHandle == Cardinality(held) <= 1

C7_Witness ==
    /\ variant = "local"
    /\ pc = "Bound"
    /\ held = {port}
    /\ attempts = <<PortLo, PortLo + 1, PortLo + 1>>

\* C8 as stated: a browser-open request is only issued for a port the
\* serving socket was bound on, and the serve loop is only entered on a
\* port a browser-open request was issued for.
C8_BindBrowserServeOrder ==
    /\ opened \subseteq bound
    /\ served \subseteq opened

\* C8 amended: a browser-open request is only issued for a port the
\* serving socket was bound on; in start_server.py the serve loop is only
\* entered on a port a browser-open request was issued for; in
\* local_server.py the serve loop is only entered after the browser thread
\* was started.
C8_BindBeforeBrowser ==
    /\ opened \subseteq bound
    /\ variant = "webapp" => served \subseteq opened
    /\ (variant = "local" /\ served # {}) => thread # "NotStarted"

C8_Witness ==
    /\ variant = "local"
    /\ pc = "Serving"
    /\ response # NoResponse
    /\ thread = "Sleeping"
    /\ opened = {}

\* C9: every response of local_server.py carries each of the three CORS
\* header lines exactly once with its fixed value; no response of
\* start_server.py carries a header of any of the three names.
CorsHeaders ==
    { <<"Access-Control-Allow-Origin", "*">>,
      <<"Access-Control-Allow-Methods", "GET, POST, OPTIONS">>,
      <<"Access-Control-Allow-Headers", "Content-Type">> }

C9_CorsHeaders ==
    response # NoResponse =>
        \A h \in CorsHeaders :
            IF variant = "local"
            THEN /\ CountHeader(response, h[1]) = 1
                 /\ \E i \in 1..Len(response.headers) : response.headers[i] = h
            ELSE CountHeader(response, h[1]) = 0

C9_Witness ==
    /\ variant = "local"
    /\ response.status = 404
    /\ CountHeader(response, "Access-Control-Allow-Headers") = 1

\* C10: a launcher that has exited with status 0 was interrupted; one that
\* found every port occupied and was not interrupted has status 1; and
\* after a fault raised during startup (between bind and serve loop) the
\* launcher has exited with status 1.
C10_ExitCodes ==
    /\ (HasExited /\ exitStatus = ExitClean) => intAt # "none"
    /\ (HasExited /\ occupied = Ports /\ intAt = "none") =>
          exitStatus = ExitError
    /\ faultAt \in {"Bound", "ThreadStarted"} =>
          (HasExited /\ exitStatus = ExitError)

\* the directory a run of script v launched from directory c serves
RootOfRun(v, c) == ServedRoot(v, CwdAfterStart(v, c))

\* C11: the directory a response is served from is the one every run of
\* the same script serves, whatever directory it was launched from.
C11_RootIndependentOfCwd ==
    root # NoRoot => \A c \in LaunchDirs : RootOfRun(variant, c) = root

\* C12: a launcher that has left main (after an interrupt, a fault or port
\* exhaustion) holds no listening socket; from then on it binds nothing,
\* serves nothing, keeps its exit status and stays exited; and once the
\* process is Stopped nothing changes at all.
C12_StoppedTerminalClean ==
    /\ [](HasExited => held = {})
    /\ [][ /\ HasExited =>
                /\ HasExited'
                /\ held' = held
                /\ bound' = bound
                /\ served' = served
                /\ attempts' = attempts
                /\ exitStatus' = exitStatus
           /\ pc = "Stopped" => UNCHANGED vars
         ]_vars

C12_Witness ==
    /\ pc = "Stopped"
    /\ faults > 0
    /\ exitStatus = ExitError
    /\ port \in served
    /\ held = {}

BoundPCs == {"Bound", "ThreadStarted", "BrowserOpen"}

\* C13: whether or not the browser-open call ever returns, a launcher
\* that has bound its serving socket goes on to Serving (unless it exits
\* first), and a launcher that has left main goes on to Stopped without
\* waiting for the browser task.
C13_BrowserNonBlocking ==
    /\ (pc \in BoundPCs) ~> (pc = "Serving" \/ HasExited)
    /\ (pc = "Exiting") ~> (pc = "Stopped")

ProbingPCs == {"PortProbing", "ProbeHeld", "Selected"}
\* the most bind attempts a run makes: one per candidate, and in
\* local_server.py the bind of the chosen port after the probe loop
AttemptLimit ==
    (PortHi - PortLo + 1) + (IF variant = "local" THEN 1 ELSE 0)

\* C14: a run makes at most one bind attempt per candidate (plus the
\* final bind of local_server.py), every attempt is on a port of
\* 8000..8009 and each probe is on a higher port than the one before (the
\* final bind of local_server.py, made after the probe loop, is on the
\* chosen port again); and a launcher that is probing goes on to Bound or
\* to Stopped.
C14_ProbingTerminates ==
    /\ [](/\ Len(attempts) <= AttemptLimit
          /\ \A i \in 1..Len(attempts) : attempts[i] \in Ports
          /\ \A i \in 1..(Len(attempts) - 1) :
                \/ attempts[i] < attempts[i + 1]
                \/ /\ variant = "local"
                   /\ pc \notin {"PortProbing", "ProbeHeld", "Selected"}
                   /\ i + 1 = Len(attempts)
                   /\ attempts[i + 1] = port)
    /\ (pc \in ProbingPCs) ~> (pc = "Bound" \/ pc = "Stopped")

C14_Witness ==
    /\ pc = "Stopped"
    /\ intAt = "none"
    /\ Len(attempts) = AttemptLimit
    /\ variant = "local"

\* C15: while other processes bind and release ports, a launcher that was
\* neither interrupted nor hit by a fault does not exit with an error as
\* long as some port of 8000..8009 has been free for the whole launch.
C15_FallbackUnderChange ==
    (HasExited /\ exitStatus = ExitError /\ faults = 0 /\ intAt = "none")
        => alwaysFree = {}

\* C16: every step that issues a browser-open request (the call of
\* start_server.py, the wake-up of the browser thread of local_server.py)
\* is taken while the launcher holds an open listening socket on the port
\* the request names.
C16_BrowserTargetsHeldPort ==
    [][ ( \/ opened' # opened
          \/ (pc = "Bound" /\ pc' = "BrowserOpen")
          \/ (thread = "Sleeping" /\ thread' = "Done") )
        => port \in held
      ]_vars

====
